---------------------------- MODULE Spec2Model ----------------------------
(***************************************************************************)
(* minilog: the Logger of minilog_v2.hpp (mutex_, cv_, the jthread running  *)
(* __process_messages, the queue messages_, the file stream file_) as a     *)
(* state machine.  One action per step of initialize(), log(), the two      *)
(* setters, __process_messages() and __shutdown(); a step ends where        *)
(* another thread's unlocked access can be observed.                        *)
(***************************************************************************)
EXTENDS Integers, Sequences, FiniteSets, TLC

(* enum class LogLevel *)
TRACE == 0
DEBUG == 1
INFO == 2
WARNING == 3
ERROR == 4
FATAL == 5
LogLevel == {TRACE, DEBUG, INFO, WARNING, ERROR, FATAL}

(* Bounds of the model. *)
MaxLogs == 3
MaxInits == 3
CfgLogs == 1
CfgInits == 2
GateLogs == 1
GateSets == 1
V1Logs == 2
V1Sets == 2

(* Threads: the thread that owns the lifecycle, the callers of log() and    *)
(* of the setters, and the jthread.                                         *)
Producers == {"p1", "p2"}
MainThread == "main"
ConsumerThread == "consumer"
NoThread == "none"

(* Inputs the callers draw from. *)
FileNames == {"t.log", "u.log"}
CfgThresholds == {INFO, ERROR}

VARIABLES
    initialized_,               \* bool initialized_
    async_,                     \* bool async_
    file_name_,                 \* std::string file_name_
    file_open,                  \* file_.is_open()
    level_threshold_,           \* LogLevel level_threshold_
    enable_output_to_console_,  \* bool enable_output_to_console_
    messages_,                  \* std::queue<LogMessage> messages_
    mutex_,                     \* owner of mutex_, or NoThread
    thread_,                    \* thread_.joinable()
    stop_,                      \* stop state of thread_'s stop source
    cpc,                        \* position of the jthread in __process_messages
    batch,                      \* its local vector `messages`
    mpc,                        \* position of the lifecycle thread
    mres,                       \* outcome of its last call
    ppc,                        \* position of each producer in log()
    plevel,                     \* level argument of the log() call in progress
    pres,                       \* outcome of each producer's last log() call
    disk,                       \* lines of each log file, in file order
    console,                    \* lines written to std::cout
    nacc,                       \* records accepted so far (next record id - 1)
    okIds,                      \* ids of the records whose log() returned normally
    sessOk,                     \* those of them returned since the last initialize()
    preIds,                     \* sessOk as it was when shutdown() was last called on a session
    cleanDown,                  \* no initialize() has run since the last completed shutdown
    ninits,                     \* initialize() calls made
    nlogs,                      \* log() calls made
    nsets,                      \* setter calls made
    crashed,                    \* std::terminate was called (an exception left a thread)
    g_log_level_threshold,      \* minilog.hpp: details::g_log_level_threshold
    g_log_file,                 \* minilog.hpp: state of the stream details::g_log_file
    g_file_lines,               \* minilog.hpp: severities of the lines of that file
    g_cout_lines,               \* minilog.hpp: severities of the lines on std::cout
    g_calls                     \* minilog.hpp: severities passed to output_log so far

ghost == <<nacc, okIds, sessOk, preIds, cleanDown, ninits, nlogs, nsets>>
vars == <<initialized_, async_, file_name_, file_open, level_threshold_,
          enable_output_to_console_, messages_, mutex_, thread_, stop_, cpc, batch,
          mpc, mres, ppc, plevel, pres, disk, console,
          nacc, okIds, sessOk, preIds, cleanDown, ninits, nlogs, nsets,
          crashed, g_log_level_threshold, g_log_file, g_file_lines, g_cout_lines,
          g_calls>>

(* What the Logger of minilog_v2.hpp does not touch: the globals of        *)
(* minilog.hpp, and the process being alive.                                *)
others == <<crashed, g_log_level_threshold, g_log_file, g_file_lines, g_cout_lines,
          g_calls>>

(* struct LogMessage: the record, identified by its acceptance number. *)
LogMessage(id, level) == [id |-> id, level |-> level]

(* A line of a sink: the record and the caller of __write_log_message.    *)
Line(msg, by) == [id |-> msg.id, level |-> msg.level, by |-> by]



TypeOK ==
    /\ initialized_ \in BOOLEAN /\ async_ \in BOOLEAN /\ file_open \in BOOLEAN
    /\ file_name_ \in FileNames \cup {""}
    /\ level_threshold_ \in LogLevel /\ enable_output_to_console_ \in BOOLEAN
    /\ mutex_ \in Producers \cup {MainThread, ConsumerThread, NoThread}
    /\ thread_ \in BOOLEAN /\ stop_ \in BOOLEAN
    /\ cpc \in {"none", "start", "lock", "towait", "waiting", "write", "exited"}
    /\ mpc \in {"idle", "i_open", "i_spawn", "i_flag", "s_stop", "s_notify", "s_join",
                "s_lock", "s_drain", "s_close", "s_flag"}
    /\ mres \in {"none", "ok", "AlreadyInitialized", "FileOpenError"}
    /\ ppc \in [Producers -> {"idle", "lg_locked"}]
    /\ plevel \in [Producers -> LogLevel]
    /\ pres \in [Producers -> {"none", "ok", "NotInitialized"}]
    /\ nacc \in 0..MaxLogs /\ ninits \in 0..MaxInits /\ nlogs \in 0..MaxLogs
    /\ nsets \in 0..(GateSets + V1Sets)
    /\ crashed \in BOOLEAN
    /\ g_log_level_threshold \in LogLevel
    /\ g_log_file \in {"closed", "open", "failed"}
    /\ okIds \subseteq 1..MaxLogs /\ sessOk \subseteq okIds /\ preIds \subseteq okIds
    /\ cleanDown \in BOOLEAN

Init ==
    /\ initialized_ = FALSE
    /\ async_ = FALSE
    /\ file_name_ = ""
    /\ file_open = FALSE
    /\ level_threshold_ = INFO
    /\ enable_output_to_console_ = TRUE
    /\ messages_ = <<>>
    /\ mutex_ = NoThread
    /\ thread_ = FALSE
    /\ stop_ = FALSE
    /\ cpc = "none"
    /\ batch = <<>>
    /\ mpc = "idle"
    /\ mres = "none"
    /\ ppc = [p \in Producers |-> "idle"]
    /\ plevel = [p \in Producers |-> TRACE]
    /\ pres = [p \in Producers |-> "none"]
    /\ disk = [f \in FileNames |-> <<>>]
    /\ console = <<>>
    /\ nacc = 0
    /\ okIds = {}
    /\ sessOk = {}
    /\ preIds = {}
    /\ cleanDown = TRUE
    /\ ninits = 0
    /\ nlogs = 0
    /\ nsets = 0
    /\ crashed = FALSE
    /\ g_log_level_threshold = INFO
    /\ g_log_file = "closed"
    /\ g_file_lines = <<>>
    /\ g_cout_lines = <<>>
    /\ g_calls = <<>>

(***************************************************************************)
(* The sink writer, Logger::__write_log_message.                            *)
(***************************************************************************)

(* The gate with the comparison made strict. *)
ShouldEmitConsoleStrict(level) ==
    enable_output_to_console_ /\ level > level_threshold_

(* The console condition of __write_log_message. *)
ShouldEmitConsole(level) ==
    enable_output_to_console_ /\ level >= level_threshold_

(* `file_ << ...` : an ofstream that is not open drops what is written. *)
FileAfterWrite(msg, by) ==
    IF file_open THEN [disk EXCEPT ![file_name_] = Append(@, Line(msg, by))] ELSE disk

ConsoleAfterWrite(msg, by) ==
    IF ShouldEmitConsole(msg.level) THEN Append(console, Line(msg, by)) ELSE console

write_log_message(msg, by) ==
    /\ console' = ConsoleAfterWrite(msg, by)
    /\ disk' = FileAfterWrite(msg, by)

(* cv_.notify_one(): wakes the jthread if it is blocked in cv_.wait; the   *)
(* woken thread has to take mutex_ again and re-evaluate its predicate.    *)
NotifyOne(c) == IF c = "waiting" THEN "lock" ELSE c

(***************************************************************************)
(* Logger::initialize                                                       *)
(***************************************************************************)

(* initialize() with the assignments made before the check. *)
InitializeEnterAssignFirst(fn, lt, as) ==
    /\ mpc = "idle"
    /\ mutex_ = NoThread
    /\ ninits' = ninits + 1
    /\ file_name_' = fn
    /\ level_threshold_' = lt
    /\ async_' = as
    /\ IF initialized_
       THEN /\ mres' = "AlreadyInitialized"
            /\ UNCHANGED <<mutex_, mpc, cleanDown>>
       ELSE /\ mutex_' = MainThread
            /\ mpc' = "i_open"
            /\ cleanDown' = FALSE
            /\ UNCHANGED mres
    /\ UNCHANGED <<initialized_, file_open, enable_output_to_console_, messages_, thread_,
                   stop_, cpc, batch, ppc, plevel, pres, disk, console,
                   nacc, okIds, sessOk, preIds, nlogs, nsets>>
    /\ UNCHANGED others

(* lock_guard; `if (initialized_) throw`; then the three assignments. *)
InitializeEnter(fn, lt, as) ==
    /\ mpc = "idle"
    /\ mutex_ = NoThread
    /\ ninits' = ninits + 1
    /\ IF initialized_
       THEN /\ mres' = "AlreadyInitialized"
            /\ UNCHANGED <<file_name_, level_threshold_, async_, mutex_, mpc, cleanDown>>
       ELSE /\ file_name_' = fn
            /\ level_threshold_' = lt
            /\ async_' = as
            /\ mutex_' = MainThread
            /\ mpc' = "i_open"
            /\ cleanDown' = FALSE
            /\ UNCHANGED mres
    /\ UNCHANGED <<initialized_, file_open, enable_output_to_console_, messages_, thread_,
                   stop_, cpc, batch, ppc, plevel, pres, disk, console,
                   nacc, okIds, sessOk, preIds, nlogs, nsets>>
    /\ UNCHANGED others

(* __open_log_file without the throw. *)
OpenLogFileNoThrow(opened) ==
    /\ mpc = "i_open"
    /\ file_open' = opened
    /\ mpc' = "i_spawn"
    /\ UNCHANGED <<initialized_, async_, file_name_, level_threshold_,
                   enable_output_to_console_, messages_, mutex_, thread_, stop_, cpc,
                   batch, mres, ppc, plevel, pres, disk, console, ghost>>
    /\ UNCHANGED others

(* __open_log_file: file_.open(file_name_, app); throws when it is not open. *)
OpenLogFile(opened) ==
    /\ mpc = "i_open"
    /\ IF opened
       THEN /\ file_open' = TRUE
            /\ mpc' = "i_spawn"
            /\ UNCHANGED <<mres, mutex_>>
       ELSE /\ mres' = "FileOpenError"
            /\ mutex_' = NoThread
            /\ mpc' = "idle"
            /\ UNCHANGED file_open
    /\ UNCHANGED <<initialized_, async_, file_name_, level_threshold_,
                   enable_output_to_console_, messages_, thread_, stop_, cpc, batch,
                   ppc, plevel, pres, disk, console, ghost>>
    /\ UNCHANGED others

(* `if (async_) thread_ = std::jthread(...)`: a new thread, a new stop state. *)
SpawnThread ==
    /\ mpc = "i_spawn"
    /\ IF async_
       THEN thread_' = TRUE /\ cpc' = "start" /\ stop_' = FALSE
       ELSE UNCHANGED <<thread_, cpc, stop_>>
    /\ mpc' = "i_flag"
    /\ UNCHANGED <<initialized_, async_, file_name_, file_open, level_threshold_,
                   enable_output_to_console_, messages_, mutex_, batch, mres,
                   ppc, plevel, pres, disk, console, ghost>>
    /\ UNCHANGED others

(* `initialized_ = true;` and the end of the lock_guard's scope. *)
SetInitialized ==
    /\ mpc = "i_flag"
    /\ initialized_' = TRUE
    /\ mutex_' = NoThread
    /\ mres' = "ok"
    /\ mpc' = "idle"
    /\ sessOk' = {}
    /\ UNCHANGED <<async_, file_name_, file_open, level_threshold_,
                   enable_output_to_console_, messages_, thread_, stop_, cpc, batch,
                   ppc, plevel, pres, disk, console,
                   nacc, okIds, preIds, cleanDown, ninits, nlogs, nsets>>
    /\ UNCHANGED others

(***************************************************************************)
(* Logger::log                                                              *)
(***************************************************************************)

(* log() without the check of initialized_. *)
LogEnterUnchecked(p, level) ==
    /\ ppc[p] = "idle"
    /\ mutex_ = NoThread
    /\ nlogs' = nlogs + 1
    /\ mutex_' = p
    /\ ppc' = [ppc EXCEPT ![p] = "lg_locked"]
    /\ plevel' = [plevel EXCEPT ![p] = level]
    /\ UNCHANGED <<initialized_, async_, file_name_, file_open, level_threshold_,
                   enable_output_to_console_, messages_, thread_, stop_, cpc, batch,
                   mpc, mres, pres, disk, console,
                   nacc, okIds, sessOk, preIds, cleanDown, ninits, nsets>>
    /\ UNCHANGED others

(* lock_guard; `if (!initialized_) throw`. *)
LogEnter(p, level) ==
    /\ ppc[p] = "idle"
    /\ mutex_ = NoThread
    /\ nlogs' = nlogs + 1
    /\ IF ~initialized_
       THEN /\ pres' = [pres EXCEPT ![p] = "NotInitialized"]
            /\ UNCHANGED <<mutex_, ppc, plevel>>
       ELSE /\ mutex_' = p
            /\ ppc' = [ppc EXCEPT ![p] = "lg_locked"]
            /\ plevel' = [plevel EXCEPT ![p] = level]
            /\ UNCHANGED pres
    /\ UNCHANGED <<initialized_, async_, file_name_, file_open, level_threshold_,
                   enable_output_to_console_, messages_, thread_, stop_, cpc, batch,
                   mpc, mres, disk, console,
                   nacc, okIds, sessOk, preIds, cleanDown, ninits, nsets>>
    /\ UNCHANGED others

(* log() without `cv_.notify_one()`. *)
LogBodyNoNotify(p) ==
    /\ ppc[p] = "lg_locked"
    /\ LET msg == LogMessage(nacc + 1, plevel[p]) IN
       /\ IF async_
          THEN /\ messages_' = Append(messages_, msg)
               /\ cpc' = cpc
               /\ UNCHANGED <<disk, console>>
          ELSE /\ write_log_message(msg, p)
               /\ UNCHANGED <<messages_, cpc>>
       /\ nacc' = nacc + 1
       /\ okIds' = okIds \cup {msg.id}
       /\ sessOk' = sessOk \cup {msg.id}
    /\ mutex_' = NoThread
    /\ ppc' = [ppc EXCEPT ![p] = "idle"]
    /\ plevel' = [plevel EXCEPT ![p] = TRACE]
    /\ pres' = [pres EXCEPT ![p] = "ok"]
    /\ UNCHANGED <<initialized_, async_, file_name_, file_open, level_threshold_,
                   enable_output_to_console_, thread_, stop_, batch, mpc, mres,
                   preIds, cleanDown, ninits, nlogs, nsets>>
    /\ UNCHANGED others

(* async: messages_.emplace(...); cv_.notify_one().  sync: the record is   *)
(* written by the caller.  Then the lock_guard's scope ends.               *)
LogBody(p) ==
    /\ ppc[p] = "lg_locked"
    /\ LET msg == LogMessage(nacc + 1, plevel[p]) IN
       /\ IF async_
          THEN /\ messages_' = Append(messages_, msg)
               /\ cpc' = NotifyOne(cpc)
               /\ UNCHANGED <<disk, console>>
          ELSE /\ write_log_message(msg, p)
               /\ UNCHANGED <<messages_, cpc>>
       /\ nacc' = nacc + 1
       /\ okIds' = okIds \cup {msg.id}
       /\ sessOk' = sessOk \cup {msg.id}
    /\ mutex_' = NoThread
    /\ ppc' = [ppc EXCEPT ![p] = "idle"]
    /\ plevel' = [plevel EXCEPT ![p] = TRACE]
    /\ pres' = [pres EXCEPT ![p] = "ok"]
    /\ UNCHANGED <<initialized_, async_, file_name_, file_open, level_threshold_,
                   enable_output_to_console_, thread_, stop_, batch, mpc, mres,
                   preIds, cleanDown, ninits, nlogs, nsets>>
    /\ UNCHANGED others

(***************************************************************************)
(* The setters                                                              *)
(***************************************************************************)

EnableOutputToConsole(enable) ==
    /\ mutex_ = NoThread
    /\ enable_output_to_console_' = enable
    /\ nsets' = nsets + 1
    /\ UNCHANGED <<initialized_, async_, file_name_, file_open, level_threshold_,
                   messages_, mutex_, thread_, stop_, cpc, batch, mpc, mres,
                   ppc, plevel, pres, disk, console,
                   nacc, okIds, sessOk, preIds, cleanDown, ninits, nlogs>>
    /\ UNCHANGED others

SetLevelThreshold(level) ==
    /\ mutex_ = NoThread
    /\ level_threshold_' = level
    /\ nsets' = nsets + 1
    /\ UNCHANGED <<initialized_, async_, file_name_, file_open,
                   enable_output_to_console_, messages_, mutex_, thread_, stop_, cpc,
                   batch, mpc, mres, ppc, plevel, pres, disk, console,
                   nacc, okIds, sessOk, preIds, cleanDown, ninits, nlogs>>
    /\ UNCHANGED others

(***************************************************************************)
(* Logger::__process_messages, run by thread_                               *)
(***************************************************************************)

(* `while (!st.stop_requested())` *)
(* The loop test that also leaves on an empty queue. *)
LoopTestEager ==
    /\ cpc = "start"
    /\ cpc' = IF stop_ \/ messages_ = <<>> THEN "exited" ELSE "lock"
    /\ UNCHANGED <<initialized_, async_, file_name_, file_open, level_threshold_,
                   enable_output_to_console_, messages_, mutex_, thread_, stop_, batch,
                   mpc, mres, ppc, plevel, pres, disk, console, ghost>>
    /\ UNCHANGED others

(* `while (!st.stop_requested())` *)
LoopTest ==
    /\ cpc = "start"
    /\ cpc' = IF stop_ THEN "exited" ELSE "lock"
    /\ UNCHANGED <<initialized_, async_, file_name_, file_open, level_threshold_,
                   enable_output_to_console_, messages_, mutex_, thread_, stop_, batch,
                   mpc, mres, ppc, plevel, pres, disk, console, ghost>>
    /\ UNCHANGED others

(* The predicate handed to cv_.wait. *)
WaitPredicate == messages_ # <<>> \/ stop_

(* The batch written inside the scope of the lock. *)
LockAndTestHoldsLock ==
    /\ cpc = "lock"
    /\ mutex_ = NoThread
    /\ IF WaitPredicate
       THEN /\ batch' = messages_
            /\ messages_' = <<>>
            /\ cpc' = IF messages_ = <<>> THEN "start" ELSE "write"
            /\ mutex_' = IF messages_ = <<>> THEN NoThread ELSE ConsumerThread
       ELSE /\ mutex_' = ConsumerThread
            /\ cpc' = "towait"
            /\ UNCHANGED <<batch, messages_>>
    /\ UNCHANGED <<initialized_, async_, file_name_, file_open, level_threshold_,
                   enable_output_to_console_, thread_, stop_,
                   mpc, mres, ppc, plevel, pres, disk, console, ghost>>
    /\ UNCHANGED others

(* unique_lock (or the wake-up of cv_.wait) takes mutex_ and evaluates the  *)
(* predicate.  True: the queue is moved to the local vector and the scope   *)
(* of the lock ends.  False: the thread is about to block, mutex_ held.     *)
LockAndTest ==
    /\ cpc = "lock"
    /\ mutex_ = NoThread
    /\ IF WaitPredicate
       THEN /\ batch' = messages_
            /\ messages_' = <<>>
            /\ cpc' = IF messages_ = <<>> THEN "start" ELSE "write"
            /\ UNCHANGED mutex_
       ELSE /\ mutex_' = ConsumerThread
            /\ cpc' = "towait"
            /\ UNCHANGED <<batch, messages_>>
    /\ UNCHANGED <<initialized_, async_, file_name_, file_open, level_threshold_,
                   enable_output_to_console_, thread_, stop_,
                   mpc, mres, ppc, plevel, pres, disk, console, ghost>>
    /\ UNCHANGED others

(* cv_.wait releases mutex_ and blocks, as one atomic step. *)
BlockOnCv ==
    /\ cpc = "towait"
    /\ mutex_' = NoThread
    /\ cpc' = "waiting"
    /\ UNCHANGED <<initialized_, async_, file_name_, file_open, level_threshold_,
                   enable_output_to_console_, messages_, thread_, stop_, batch,
                   mpc, mres, ppc, plevel, pres, disk, console, ghost>>
    /\ UNCHANGED others

(* A condition variable may wake up without a notification. *)
SpuriousWakeup ==
    /\ cpc = "waiting"
    /\ cpc' = "lock"
    /\ UNCHANGED <<initialized_, async_, file_name_, file_open, level_threshold_,
                   enable_output_to_console_, messages_, mutex_, thread_, stop_, batch,
                   mpc, mres, ppc, plevel, pres, disk, console, ghost>>
    /\ UNCHANGED others

(* `for (const auto& message : messages) __write_log_message(message);`    *)
(* one record per step, mutex_ not held.                                    *)
WriteBatch ==
    /\ cpc = "write"
    /\ write_log_message(Head(batch), ConsumerThread)
    /\ batch' = Tail(batch)
    /\ cpc' = IF Tail(batch) = <<>> THEN "start" ELSE "write"
    /\ UNCHANGED <<initialized_, async_, file_name_, file_open, level_threshold_,
                   enable_output_to_console_, messages_, mutex_, thread_, stop_,
                   mpc, mres, ppc, plevel, pres, ghost>>
    /\ UNCHANGED others

(***************************************************************************)
(* Logger::__shutdown, called by shutdown() and by ~Logger()                *)
(***************************************************************************)

(* The condition without joinable(). *)
MustJoinAsyncOnly == async_

(* `if (async_ && thread_.joinable())` *)
MustJoin == async_ /\ thread_

ShutdownEnter ==
    /\ mpc = "idle"
    /\ mpc' = IF MustJoin THEN "s_stop" ELSE "s_close"
    /\ preIds' = IF initialized_ THEN sessOk ELSE {}
    /\ UNCHANGED <<initialized_, async_, file_name_, file_open, level_threshold_,
                   enable_output_to_console_, messages_, mutex_, thread_, stop_, cpc,
                   batch, mres, ppc, plevel, pres, disk, console,
                   nacc, okIds, sessOk, cleanDown, ninits, nlogs, nsets>>
    /\ UNCHANGED others

(* thread_.request_stop() *)
RequestStop ==
    /\ mpc = "s_stop"
    /\ stop_' = TRUE
    /\ mpc' = "s_notify"
    /\ UNCHANGED <<initialized_, async_, file_name_, file_open, level_threshold_,
                   enable_output_to_console_, messages_, mutex_, thread_, cpc, batch,
                   mres, ppc, plevel, pres, disk, console, ghost>>
    /\ UNCHANGED others

(* cv_.notify_one(), mutex_ not held *)
ShutdownNotify ==
    /\ mpc = "s_notify"
    /\ cpc' = NotifyOne(cpc)
    /\ mpc' = "s_join"
    /\ UNCHANGED <<initialized_, async_, file_name_, file_open, level_threshold_,
                   enable_output_to_console_, messages_, mutex_, thread_, stop_, batch,
                   mres, ppc, plevel, pres, disk, console, ghost>>
    /\ UNCHANGED others

(* The thread detached instead of joined. *)
JoinDetaches ==
    /\ mpc = "s_join"
    /\ thread_' = FALSE
    /\ mpc' = "s_lock"
    /\ UNCHANGED <<initialized_, async_, file_name_, file_open, level_threshold_,
                   enable_output_to_console_, messages_, mutex_, stop_, cpc, batch,
                   mres, ppc, plevel, pres, disk, console, ghost>>
    /\ UNCHANGED others

(* thread_.join() returns when __process_messages has returned. *)
Join ==
    /\ mpc = "s_join"
    /\ cpc = "exited"
    /\ cpc' = "none"
    /\ thread_' = FALSE
    /\ mpc' = "s_lock"
    /\ UNCHANGED <<initialized_, async_, file_name_, file_open, level_threshold_,
                   enable_output_to_console_, messages_, mutex_, stop_, batch,
                   mres, ppc, plevel, pres, disk, console, ghost>>
    /\ UNCHANGED others

(* `std::unique_lock lock(mutex_);` *)
ShutdownLock ==
    /\ mpc = "s_lock"
    /\ mutex_ = NoThread
    /\ mutex_' = MainThread
    /\ mpc' = "s_drain"
    /\ UNCHANGED <<initialized_, async_, file_name_, file_open, level_threshold_,
                   enable_output_to_console_, messages_, thread_, stop_, cpc, batch,
                   mres, ppc, plevel, pres, disk, console, ghost>>
    /\ UNCHANGED others

(* __shutdown without the loop that writes what is left in the queue. *)
ResidualDrainMissing ==
    /\ mpc = "s_drain"
    /\ mutex_' = NoThread
    /\ mpc' = "s_close"
    /\ UNCHANGED <<initialized_, async_, file_name_, file_open, level_threshold_,
                   enable_output_to_console_, messages_, thread_, stop_, cpc, batch,
                   mres, ppc, plevel, pres, disk, console, ghost>>
    /\ UNCHANGED others

(* `while (!messages_.empty()) { write front; pop }`, then the lock's scope ends. *)
ResidualDrain ==
    /\ mpc = "s_drain"
    /\ IF messages_ # <<>>
       THEN /\ write_log_message(Head(messages_), MainThread)
            /\ messages_' = Tail(messages_)
            /\ UNCHANGED <<mutex_, mpc>>
       ELSE /\ mutex_' = NoThread
            /\ mpc' = "s_close"
            /\ UNCHANGED <<messages_, disk, console>>
    /\ UNCHANGED <<initialized_, async_, file_name_, file_open, level_threshold_,
                   enable_output_to_console_, thread_, stop_, cpc, batch,
                   mres, ppc, plevel, pres, ghost>>
    /\ UNCHANGED others

(* `if (file_.is_open()) file_.close();` *)
CloseFile ==
    /\ mpc = "s_close"
    /\ file_open' = FALSE
    /\ mpc' = "s_flag"
    /\ UNCHANGED <<initialized_, async_, file_name_, level_threshold_,
                   enable_output_to_console_, messages_, mutex_, thread_, stop_, cpc,
                   batch, mres, ppc, plevel, pres, disk, console, ghost>>
    /\ UNCHANGED others

(* `initialized_ = false;` and the return. *)
ClearInitialized ==
    /\ mpc = "s_flag"
    /\ initialized_' = FALSE
    /\ mpc' = "idle"
    /\ mres' = "ok"
    /\ cleanDown' = TRUE
    /\ UNCHANGED <<async_, file_name_, file_open, level_threshold_,
                   enable_output_to_console_, messages_, mutex_, thread_, stop_, cpc,
                   batch, ppc, plevel, pres, disk, console,
                   nacc, okIds, sessOk, preIds, ninits, nlogs, nsets>>
    /\ UNCHANGED others

(***************************************************************************)
(* The program: the lifecycle thread calls initialize() and shutdown() one  *)
(* after the other, the producers call log(), anybody calls the setters.    *)
(* The callers draw their arguments from the given sets and make at most    *)
(* the given numbers of calls.                                              *)
(***************************************************************************)

Initialize(names, thresholds, maxInits) ==
    \/ \E fn \in names, lt \in thresholds, as \in BOOLEAN :
          ninits < maxInits /\ InitializeEnter(fn, lt, as)
    \/ \E opened \in BOOLEAN : OpenLogFile(opened)
    \/ SpawnThread
    \/ SetInitialized

Log(callers, levels, maxLogs) ==
    \/ \E p \in callers, level \in levels : nlogs < maxLogs /\ LogEnter(p, level)
    \/ \E p \in Producers : LogBody(p)

Setters(thresholds, maxSets) ==
    \/ \E enable \in BOOLEAN : nsets < maxSets /\ EnableOutputToConsole(enable)
    \/ \E level \in thresholds : nsets < maxSets /\ SetLevelThreshold(level)

ProcessMessages == LoopTest \/ LockAndTest \/ BlockOnCv \/ WriteBatch

Shutdown ==
    \/ ShutdownEnter \/ RequestStop \/ ShutdownNotify \/ Join
    \/ ShutdownLock \/ ResidualDrain \/ CloseFile \/ ClearInitialized

(* The concurrency of the engine: one file, one severity, no setter. *)
Next ==
    \/ Initialize({"t.log"}, {INFO}, MaxInits)
    \/ Log(Producers, {INFO}, MaxLogs)
    \/ ProcessMessages
    \/ SpuriousWakeup
    \/ Shutdown

Spec == Init /\ [][Next]_vars

(* Every thread that can take a step of the call it is in eventually takes *)
(* it: the jthread, the lifecycle thread inside initialize() or            *)
(* __shutdown(), a producer inside log().  Nobody is obliged to call, and   *)
(* no spurious wake-up is promised.                                         *)
InitializeSteps == (\E opened \in BOOLEAN : OpenLogFile(opened)) \/ SpawnThread \/ SetInitialized
ShutdownSteps ==
    \/ RequestStop \/ ShutdownNotify \/ Join
    \/ ShutdownLock \/ ResidualDrain \/ CloseFile \/ ClearInitialized
LogSteps == \E p \in Producers : LogBody(p)

SpecFair ==
    /\ Init /\ [][Next]_vars
    /\ WF_vars(ProcessMessages)
    /\ WF_vars(InitializeSteps)
    /\ WF_vars(ShutdownSteps)
    /\ WF_vars(LogSteps)

(* __write_log_message throws on the jthread (current_zone() without a     *)
(* time-zone database, std::format out of memory) before it has written     *)
(* anything.  Nothing between the throw and the top of the thread catches:  *)
(* std::terminate ends the process.                                         *)
WriteBatchThrows ==
    /\ cpc = "write"
    /\ ~crashed
    /\ crashed' = TRUE
    /\ UNCHANGED <<initialized_, async_, file_name_, file_open, level_threshold_,
                   enable_output_to_console_, messages_, mutex_, thread_, stop_, cpc,
                   batch, mpc, mres, ppc, plevel, pres, disk, console, ghost>>
    /\ UNCHANGED <<g_log_level_threshold, g_log_file, g_file_lines, g_cout_lines,
                   g_calls>>

(* The engine with writes that can throw; a terminated process takes no    *)
(* step.                                                                    *)
NextFail ==
    \/ ~crashed /\ Next
    \/ WriteBatchThrows

SpecFail == Init /\ [][NextFail]_vars

(* A process that never calls shutdown(), fairly scheduled. *)
NextWake ==
    \/ Initialize({"t.log"}, {INFO}, MaxInits)
    \/ Log(Producers, {INFO}, MaxLogs)
    \/ ProcessMessages
    \/ SpuriousWakeup

SpecWake ==
    /\ Init /\ [][NextWake]_vars
    /\ WF_vars(ProcessMessages)
    /\ WF_vars(InitializeSteps)
    /\ WF_vars(LogSteps)

(* Double initialization: every file name, two thresholds, both modes. *)
NextCfg ==
    \/ Initialize(FileNames, CfgThresholds, CfgInits)
    \/ Log({"p1"}, {INFO}, CfgLogs)
    \/ ProcessMessages
    \/ SpuriousWakeup
    \/ Shutdown

SpecCfg == Init /\ [][NextCfg]_vars

(* The sinks: one session that initialize(name, threshold, async) and      *)
(* enable_output_to_console(enable) have set up, for every threshold, both  *)
(* modes and both settings of the console; records of every severity.       *)
InitGate ==
    /\ initialized_ = TRUE
    /\ async_ \in BOOLEAN
    /\ file_name_ = "t.log"
    /\ file_open = TRUE
    /\ level_threshold_ \in LogLevel
    /\ enable_output_to_console_ \in BOOLEAN
    /\ messages_ = <<>>
    /\ mutex_ = NoThread
    /\ thread_ = async_
    /\ stop_ = FALSE
    /\ cpc = IF async_ THEN "start" ELSE "none"
    /\ batch = <<>>
    /\ mpc = "idle"
    /\ mres = "ok"
    /\ ppc = [p \in Producers |-> "idle"]
    /\ plevel = [p \in Producers |-> TRACE]
    /\ pres = [p \in Producers |-> "none"]
    /\ disk = [f \in FileNames |-> <<>>]
    /\ console = <<>>
    /\ nacc = 0
    /\ okIds = {}
    /\ sessOk = {}
    /\ preIds = {}
    /\ cleanDown = FALSE
    /\ ninits = 1
    /\ nlogs = 0
    /\ nsets = 0
    /\ crashed = FALSE
    /\ g_log_level_threshold = INFO
    /\ g_log_file = "closed"
    /\ g_file_lines = <<>>
    /\ g_cout_lines = <<>>
    /\ g_calls = <<>>

NextGate ==
    \/ Log({"p1"}, LogLevel, GateLogs)
    \/ Setters(LogLevel, GateSets)
    \/ ProcessMessages
    \/ SpuriousWakeup
    \/ Shutdown

SpecGate == InitGate /\ [][NextGate]_vars

(***************************************************************************)
(* minilog.hpp: the header-only API.  Its globals                           *)
(* g_log_level_threshold and g_log_file, output_log and the two setters;    *)
(* its log_level has the six severities of LogLevel, in the same order.     *)
(***************************************************************************)

(* The Logger of minilog_v2.hpp, which this API does not touch. *)
logger == <<initialized_, async_, file_name_, file_open, level_threshold_,
            enable_output_to_console_, messages_, mutex_, thread_, stop_, cpc, batch,
            mpc, mres, ppc, plevel, pres, disk, console,
            nacc, okIds, sessOk, preIds, cleanDown, ninits, crashed>>

(* The initializers of the two globals: MINILOG_LEVEL names a severity or  *)
(* the threshold is info; MINILOG_FILE is opened in append mode or the      *)
(* stream stays closed.                                                     *)
InitV1 ==
    /\ initialized_ = FALSE
    /\ async_ = FALSE
    /\ file_name_ = ""
    /\ file_open = FALSE
    /\ level_threshold_ = INFO
    /\ enable_output_to_console_ = TRUE
    /\ messages_ = <<>>
    /\ mutex_ = NoThread
    /\ thread_ = FALSE
    /\ stop_ = FALSE
    /\ cpc = "none"
    /\ batch = <<>>
    /\ mpc = "idle"
    /\ mres = "none"
    /\ ppc = [p \in Producers |-> "idle"]
    /\ plevel = [p \in Producers |-> TRACE]
    /\ pres = [p \in Producers |-> "none"]
    /\ disk = [f \in FileNames |-> <<>>]
    /\ console = <<>>
    /\ nacc = 0
    /\ okIds = {}
    /\ sessOk = {}
    /\ preIds = {}
    /\ cleanDown = TRUE
    /\ ninits = 0
    /\ nlogs = 0
    /\ nsets = 0
    /\ crashed = FALSE
    /\ g_log_level_threshold \in LogLevel
    /\ g_log_file \in {"closed", "open"}
    /\ g_file_lines = <<>>
    /\ g_cout_lines = <<>>
    /\ g_calls = <<>>

(* output_log with the threshold applied to the file as well. *)
output_log_gated(level) ==
    /\ g_cout_lines' = IF level >= g_log_level_threshold
                       THEN Append(g_cout_lines, level) ELSE g_cout_lines
    /\ g_file_lines' = IF g_log_file = "open" /\ level >= g_log_level_threshold
                       THEN Append(g_file_lines, level) ELSE g_file_lines
    /\ g_calls' = Append(g_calls, level)
    /\ nlogs' = nlogs + 1
    /\ UNCHANGED <<logger, nsets, g_log_level_threshold, g_log_file>>

(* details::output_log: std::cout when level >= g_log_level_threshold; the *)
(* file when g_log_file.is_open().  A stream whose failbit is set writes    *)
(* nothing.                                                                 *)
output_log(level) ==
    /\ g_cout_lines' = IF level >= g_log_level_threshold
                       THEN Append(g_cout_lines, level) ELSE g_cout_lines
    /\ g_file_lines' = IF g_log_file = "open"
                       THEN Append(g_file_lines, level) ELSE g_file_lines
    /\ g_calls' = Append(g_calls, level)
    /\ nlogs' = nlogs + 1
    /\ UNCHANGED <<logger, nsets, g_log_level_threshold, g_log_file>>

set_log_level_threshold(level) ==
    /\ g_log_level_threshold' = level
    /\ nsets' = nsets + 1
    /\ UNCHANGED <<logger, nlogs, g_log_file, g_file_lines, g_cout_lines, g_calls>>

(* g_log_file.open(filename, app): on a stream that is open already it     *)
(* fails and sets failbit, the stream staying open; on a closed stream it   *)
(* opens the file, or fails and leaves the stream closed.                   *)
set_log_file(opened) ==
    /\ g_log_file' = IF g_log_file # "closed" THEN "failed"
                     ELSE IF opened THEN "open" ELSE "closed"
    /\ nsets' = nsets + 1
    /\ UNCHANGED <<logger, nlogs, g_log_level_threshold, g_file_lines, g_cout_lines,
                   g_calls>>

NextV1 ==
    \/ \E level \in LogLevel : nlogs < V1Logs /\ output_log(level)
    \/ \E level \in LogLevel : nsets < V1Sets /\ set_log_level_threshold(level)
    \/ \E opened \in BOOLEAN : nsets < V1Sets /\ set_log_file(opened)

SpecV1 == InitV1 /\ [][NextV1]_vars

(***************************************************************************)
(* Properties                                                               *)
(***************************************************************************)

CountId(seq, id) == Cardinality({i \in 1..Len(seq) : seq[i].id = id})
Writers(seq) == {seq[i].by : i \in 1..Len(seq)}

(* shutdown() has returned and no initialize() was called since. *)
ShutdownReturned == mpc = "idle" /\ cleanDown

(* C1: no record loss in async mode.  Once shutdown() of an async session   *)
(* has returned, every record whose log() call returned before shutdown()   *)
(* was called is in the session's file exactly once and in no other file;   *)
(* no file holds a record twice; and when these N records are all the       *)
(* records there are, the file has exactly N lines.                         *)
C1_NoRecordLoss ==
    (ShutdownReturned /\ async_) =>
        /\ \A id \in preIds :
              /\ CountId(disk[file_name_], id) = 1
              /\ \A f \in FileNames \ {file_name_} : CountId(disk[f], id) = 0
        /\ \A f \in FileNames : \A id \in 1..nacc : CountId(disk[f], id) <= 1
        /\ (okIds = preIds /\ \A p \in Producers : ppc[p] = "idle")
              => Len(disk[file_name_]) = Cardinality(preIds)

(* Three records logged before shutdown(): the thread wrote some of them,  *)
(* the residual drain of __shutdown the others.                             *)
C1_Witness ==
    /\ ShutdownReturned /\ async_
    /\ preIds = {1, 2, 3}
    /\ Writers(disk[file_name_]) = {ConsumerThread, MainThread}

(* C3: once the engine is shut down, every record whose log() call         *)
(* returned without error is in a file.                                     *)
C3_AcceptedIsWritten ==
    ShutdownReturned => \A id \in okIds : \E f \in FileNames : CountId(disk[f], id) = 1

(* C4: the lines of a file are in the order in which their records were    *)
(* accepted (ids are given at the serialization point, under mutex_).       *)
C4_FileOrder ==
    \A f \in FileNames : \A i, j \in 1..Len(disk[f]) :
        i < j => disk[f][i].id < disk[f][j].id

(* C2: shutdown always completes.  Under fair scheduling, a shutdown() of  *)
(* an async session that has requested the stop returns, with the engine    *)
(* uninitialized.                                                           *)
C2_ShutdownCompletes ==
    (mpc = "s_notify") ~> (mpc = "idle" /\ ~initialized_)

(* What one call of __write_log_message has to do to the two sinks.        *)
GateEffect(msg, by) ==
    /\ IF enable_output_to_console_ /\ msg.level >= level_threshold_
       THEN /\ Len(console') = Len(console) + 1
            /\ console'[Len(console')] = Line(msg, by)
            /\ SubSeq(console', 1, Len(console)) = console
       ELSE console' = console
    /\ file_open =>
          /\ Len(disk'[file_name_]) = Len(disk[file_name_]) + 1
          /\ disk'[file_name_][Len(disk'[file_name_])] = Line(msg, by)

(* C5: severity gate asymmetry.  In every step that writes a record (the   *)
(* thread's batch, a sync log(), the residual drain), the record goes to    *)
(* the console iff the console is enabled and severity >= threshold, and   *)
(* to the open file whatever the severity and the threshold.               *)
C5_SeverityGate ==
    [][ /\ (cpc = "write" /\ batch' # batch)
             => GateEffect(Head(batch), ConsumerThread)
        /\ \A p \in Producers :
             (ppc[p] = "lg_locked" /\ ppc'[p] = "idle" /\ ~async_)
                => GateEffect(LogMessage(nacc + 1, plevel[p]), p)
        /\ (mpc = "s_drain" /\ messages_ # <<>> /\ messages_' # messages_)
             => GateEffect(Head(messages_), MainThread)
      ]_vars

(* A record below the threshold that no setter has touched: in the file,   *)
(* not on the console, which is enabled.                                    *)
C5_Witness ==
    /\ nsets = 0 /\ enable_output_to_console_
    /\ console = <<>>
    /\ \E i \in 1..Len(disk["t.log"]) : disk["t.log"][i].level < level_threshold_

(* C6: shutdown is idempotent.  A __shutdown() that starts when the engine *)
(* was shut down and not initialized again takes no step of the join path,  *)
(* reports no error and changes neither the engine nor a sink.              *)
C6_ShutdownIdempotent ==
    [][ (cleanDown /\ mpc' # mpc /\ (mpc # "idle" \/ mpc' \in {"s_stop", "s_close"}))
           => /\ mpc' \in {"s_close", "s_flag", "idle"}
              /\ mres' \in {mres, "ok"}
              /\ UNCHANGED <<initialized_, async_, file_name_, file_open,
                             level_threshold_, enable_output_to_console_, thread_,
                             stop_, cpc, batch, mutex_>>
              /\ UNCHANGED <<messages_, disk, console>>
              /\ ~initialized_ /\ ~file_open /\ ~thread_
      ]_vars

(* The second shutdown() after an async session that wrote a record.       *)
C6_Witness ==
    /\ cleanDown /\ mpc = "s_flag" /\ async_
    /\ disk["t.log"] # <<>>

(* C7: a log() that finds the engine uninitialized fails with              *)
(* NotInitialized, is over, and has changed neither the queue nor a sink.   *)
C7_LogNotInitialized ==
    [][ (nlogs' # nlogs /\ ~initialized_)
           => /\ \E p \in Producers : pres' = [pres EXCEPT ![p] = "NotInitialized"]
              /\ UNCHANGED <<ppc, mutex_, messages_, disk, console, nacc, okIds, batch>>
      ]_vars

(* A log() failed after a session that had accepted a record. *)
C7_Witness ==
    /\ ShutdownReturned
    /\ \E p \in Producers : pres[p] = "NotInitialized"
    /\ okIds # {}

(* C8: initialize() on an initialized engine fails with AlreadyInitialized *)
(* and changes nothing.                                                     *)
C8_AlreadyInitialized ==
    [][ (ninits' # ninits /\ initialized_)
           => /\ mres' = "AlreadyInitialized"
              /\ UNCHANGED <<initialized_, async_, file_name_, file_open,
                             level_threshold_, enable_output_to_console_, messages_,
                             mutex_, thread_, stop_, cpc, batch, mpc, disk, console>>
      ]_vars

(* The rejected call, made on a running async session. *)
C8_Witness ==
    /\ mres = "AlreadyInitialized" /\ initialized_ /\ async_ /\ thread_
    /\ file_name_ = "u.log" /\ level_threshold_ = ERROR

(* The engine after an initialize() that failed to open the file. *)
OpenFailureState ==
    (mres = "FileOpenError" /\ mpc = "idle")
        => ~initialized_ /\ ~thread_ /\ cpc = "none" /\ ~file_open

(* C9: after an initialize() that failed to open the file the engine is    *)
(* uninitialized, without thread and without open file, and a log() fails   *)
(* with NotInitialized; initialized_ becomes true only with the file open   *)
(* and, in async mode, the thread started.                                  *)
C9_OpenFailure ==
    /\ []OpenFailureState
    /\ [][ /\ (~initialized_ /\ initialized_')
                => (file_open /\ (async_ => (thread_ /\ cpc # "none")))
           /\ (mres = "FileOpenError" /\ mpc = "idle" /\ nlogs' # nlogs)
                => \E p \in Producers : pres' = [pres EXCEPT ![p] = "NotInitialized"]
         ]_vars

(* A log() has failed after the initialize() that could not open the file. *)
C9_Witness ==
    /\ mres = "FileOpenError" /\ mpc = "idle" /\ async_
    /\ \E p \in Producers : pres[p] = "NotInitialized"
    /\ nlogs > 0

(* C10: whoever is about to run __write_log_message, which reads           *)
(* level_threshold_ and enable_output_to_console_, holds mutex_.            *)
C10_SinkReadsUnderLock ==
    /\ cpc = "write" => mutex_ = ConsumerThread
    /\ \A p \in Producers : ppc[p] = "lg_locked" => mutex_ = p
    /\ mpc = "s_drain" => mutex_ = MainThread

(* The threads whose next step touches the stream file_: the thread about  *)
(* to write a record of its batch, a producer about to write in sync mode,  *)
(* the lifecycle thread about to open the file, to write what is left in    *)
(* the queue, or to close the open file.  Two of them at once are two       *)
(* accesses that nothing orders.                                            *)
FileAccessors ==
    {t \in {ConsumerThread} : cpc = "write"}
    \cup {p \in Producers : ppc[p] = "lg_locked" /\ ~async_}
    \cup {t \in {MainThread} :
             \/ mpc = "i_open"
             \/ mpc = "s_drain" /\ messages_ # <<>>
             \/ mpc = "s_close" /\ file_open}

(* C11: at most one thread at a time is writing to, or closing, the file   *)
(* handle.                                                                  *)
C11_FileExclusive == Cardinality(FileAccessors) <= 1

(* C12: a sync log() that returns has written its line to the file while   *)
(* holding mutex_, and has put nothing into the queue.                      *)
C12_SyncLogWrites ==
    [][ \A p \in Producers :
          (ppc[p] = "lg_locked" /\ ppc'[p] = "idle" /\ ~async_)
             => /\ mutex_ = p
                /\ messages_' = messages_
                /\ Len(disk'[file_name_]) = Len(disk[file_name_]) + 1
                /\ disk'[file_name_][Len(disk'[file_name_])]
                      = Line(LogMessage(nacc + 1, plevel[p]), p)
      ]_vars

(* The output_log call of this step, if it is one. *)
V1Logged == Len(g_calls') = Len(g_calls) + 1
V1Level == g_calls'[Len(g_calls')]

ConsumerExits == cpc # "exited" /\ cpc' = "exited"

(* C14 as stated: the consumer thread leaves its loop only on a stop       *)
(* observed with the queue empty; it never exits while the queue holds a    *)
(* record.                                                                  *)
C14_ExitsOnEmptyQueue ==
    [][ ConsumerExits => (stop_ /\ messages_ = <<>>) ]_vars

(* C14 amended: the consumer thread leaves its loop only at the loop test, *)
(* on an observed stop and with its batch fully written, while a shutdown   *)
(* that has not yet reached its residual drain is in progress; the queue    *)
(* may hold records at that moment.                                         *)
C14_ExitsOnStop ==
    [][ ConsumerExits
           => /\ cpc = "start" /\ stop_ /\ batch = <<>>
              /\ mpc \in {"s_notify", "s_join"}
              /\ UNCHANGED <<messages_, disk>>
      ]_vars

(* The thread has left its loop and the queue holds a record. *)
C14_Witness == cpc = "exited" /\ stop_ /\ messages_ # <<>>

(* C15 as stated: in async mode no thread holds mutex_ while it is at a    *)
(* sink write, be it the consumer thread at its batch or __shutdown at its  *)
(* residual drain.                                                          *)
C15_NoWriteUnderLock ==
    async_ =>
       /\ (cpc = "write" => mutex_ # ConsumerThread)
       /\ ((mpc = "s_drain" /\ messages_ # <<>>) => mutex_ # MainThread)

(* C15 amended: the consumer thread never holds mutex_ while it writes: it *)
(* holds it only on its way into cv_.wait, and the step that takes it to    *)
(* its writes moves the whole queue to the batch and leaves mutex_ free.    *)
(* The only async write under mutex_ is the residual drain of __shutdown,   *)
(* after the join.                                                          *)
C15_BatchAndRelease ==
    /\ [](mutex_ = ConsumerThread => cpc = "towait")
    /\ [](cpc = "write" => batch # <<>>)
    /\ []((mpc = "s_drain" /\ mutex_ = MainThread) => cpc = "none")
    /\ [][ (cpc # "write" /\ cpc' = "write")
              => /\ messages_ # <<>> /\ batch' = messages_ /\ messages_' = <<>>
                 /\ mutex_' = NoThread
         ]_vars

(* The consumer thread is at a write while a producer holds mutex_. *)
C15_Witness == async_ /\ cpc = "write" /\ mutex_ \in Producers


Queued(id) == \E i \in 1..Len(messages_) : messages_[i].id = id
WrittenByConsumer(id) ==
    \E f \in FileNames : f = file_name_ /\
        \E i \in 1..Len(disk[f]) : disk[f][i].id = id /\ disk[f][i].by = ConsumerThread

(* C17: with no shutdown() call and fair scheduling, every record in the   *)
(* queue is eventually written to the file by the consumer thread, and the  *)
(* consumer thread is never blocked in cv_.wait while the queue holds a     *)
(* record.                                                                  *)
C17_WakeUp ==
    /\ [](cpc = "waiting" => messages_ = <<>>)
    /\ \A id \in 1..MaxLogs : Queued(id) ~> WrittenByConsumer(id)

(* The consumer thread is blocked again after it wrote a record that was   *)
(* enqueued later than the first one it wrote.                              *)
C17_Witness ==
    /\ async_ /\ initialized_ /\ cpc = "waiting"
    /\ WrittenByConsumer(1) /\ WrittenByConsumer(2)
    /\ Len(disk[file_name_]) = 2


(* C18: the file is open in every state in which initialized_ is true, so  *)
(* a log() call that has passed the initialized_ test writes to an open     *)
(* file; the file is opened once per initialize() and closed once per       *)
(* shutdown().                                                              *)
C18_FileLifecycle ==
    /\ [](initialized_ => file_open)
    /\ [][ (~file_open /\ file_open') => mpc = "i_open" ]_vars
    /\ [][ (file_open /\ ~file_open') => mpc = "s_close" ]_vars
    /\ [][ \A p \in Producers :
              (ppc[p] = "lg_locked" /\ ppc'[p] = "idle" /\ ~async_) => file_open ]_vars
    /\ [][ (cpc = "write" /\ batch' # batch) => file_open ]_vars


(* A step of the consumer thread that handles the first record of its      *)
(* batch, successfully or not.                                              *)
ConsumerHandlesRecord == cpc = "write" /\ (batch' # batch \/ crashed' # crashed)

(* C19: a failing write of one record does not stop the drain.  Whatever   *)
(* happens to the write of a record, the consumer thread keeps running, a   *)
(* line for the record (the record or a fallback string) reaches the open   *)
(* file, and the thread goes on to the rest of its batch.                   *)
C19_DrainSurvivesFailure ==
    [][ ConsumerHandlesRecord
           => /\ ~crashed'
              /\ batch' = Tail(batch)
              /\ cpc' = IF batch' = <<>> THEN "start" ELSE "write"
              /\ file_open => Len(disk'[file_name_]) = Len(disk[file_name_]) + 1
      ]_vars


(* C20: sessions are isolated.  Whenever the engine is uninitialized and   *)
(* no initialize() or shutdown() is in progress the queue is empty, and a   *)
(* session starts with no record of an earlier session queued or in the     *)
(* consumer thread's batch, so that its file receives only its own records. *)
C20_SessionsIsolated ==
    /\ []((~initialized_ /\ mpc = "idle") => messages_ = <<>>)
    /\ [][ (~initialized_ /\ initialized_') => (messages_ = <<>> /\ batch = <<>>) ]_vars

=============================================================================
